---- MODULE Spec2Model ----
(***************************************************************************)
(* The bouncing-ball demo of src/main.ts: a DOMContentLoaded handler that  *)
(* looks up the canvas, constructs the engine, creates the ball and        *)
(* registers an update and a draw callback which the engine then invokes   *)
(* once per frame.                                                         *)
(*                                                                         *)
(* Numbers.  Positions are pixels.  Elapsed time is counted in units of    *)
(* 1/TicksPerSecond seconds, so dt = n / TicksPerSecond and the product    *)
(* speed * d * dt of main.ts:24-25 is (speed * d * n) / TicksPerSecond.    *)
(* TicksPerSecond is chosen equal to speed, which makes that quotient an   *)
(* exact integer: the model computes with exact arithmetic on this grid    *)
(* (the rounding of IEEE doubles is not modelled).                         *)
(***************************************************************************)
EXTENDS Integers, Sequences, FiniteSets

VARIABLES
    pc,       \* "loading": DOMContentLoaded not fired yet; "running": system.run
              \* was called; "idle": the handler ran and found no #app
    hasApp,   \* whether document.getElementById('app') finds an element
    calls,    \* engine calls made by the handler, in order
    width,    \* passion.system.width
    height,   \* passion.system.height
    x, y,     \* the ball's position (closure variables of the handler)
    dx, dy,   \* the ball's velocity
    ticked,   \* update has been invoked at least once
    prev,     \* x, y, dx, dy as they were when update was last entered, and its dt
    draws,    \* number of draw invocations since the last update
    gfx       \* graphics calls issued since the last update, in order

vars == <<pc, hasApp, calls, width, height, x, y, dx, dy, ticked, prev, draws, gfx>>

ball == <<x, y, dx, dy>>

(***************************************************************************)
(* Bounds of the model.                                                    *)
(***************************************************************************)
\* elapsed times offered to update are DtStep * k / TicksPerSecond, k in 0..MaxDt
MaxDt == 2
\* how far (pixels) the ball's centre is followed beyond the viewport
MaxOut == 8
\* draw invocations followed between two updates
MaxDraws == 2

(***************************************************************************)
(* Program constants.                                                      *)
(***************************************************************************)
radius == 16
speed == 20
InitWidth == 360
InitHeight == 240
RndMin == 0 - 5
RndMax == 5
ClsColor == 2
CircColor == 1
TextX == 100
TextY == 50
TextColor == 15
Title == "My first, but wonderful game!"
Welcome == "Welcome to the passion engine!"

TicksPerSecond == speed
\* the elapsed times offered to update: multiples of a fifth of a second
DtStep == TicksPerSecond \div 5
Dts == {DtStep * k : k \in 0..MaxDt}

Abs(v) == IF v < 0 THEN 0 - v ELSE v

\* passion.math.rndi(min, max): an integer of [min, max], both ends included
rndi(min, max) == min..max

\* a variant that forgets the speed factor
Advance_NoSpeed(p, d, n) == p + (d * n) \div TicksPerSecond

\* p += speed * d * dt, with dt = n / TicksPerSecond
Advance(p, d, n) == p + (speed * d * n) \div TicksPerSecond

\* a variant with strict comparisons
HitsEdge_Strict(p, extent) == p - radius < 0 \/ p + radius > extent

\* p - radius <= 0 || p + radius >= extent
HitsEdge(p, extent) == p - radius <= 0 \/ p + radius >= extent

\* a variant that stops the ball at an edge instead of turning it round
Bounce_Stop(p, d, extent) == IF HitsEdge(p, extent) THEN 0 ELSE d

\* if (HitsEdge) { d = -d; }
Bounce(p, d, extent) == IF HitsEdge(p, extent) THEN 0 - d ELSE d

\* a variant that passes the circle's coordinates in the wrong order
DrawCalls_Swapped(bx, by) ==
    << [fn |-> "cls",  args |-> <<ClsColor>>],
       [fn |-> "circ", args |-> <<by, bx, radius, CircColor>>],
       [fn |-> "text", args |-> <<TextX, TextY, Welcome, TextColor>>] >>

\* the calls one invocation of the draw callback makes
DrawCalls(bx, by) ==
    << [fn |-> "cls",  args |-> <<ClsColor>>],
       [fn |-> "circ", args |-> <<bx, by, radius, CircColor>>],
       [fn |-> "text", args |-> <<TextX, TextY, Welcome, TextColor>>] >>

\* a variant that starts the frame loop before the velocity is drawn
SetupCalls_RunFirst ==
    << [fn |-> "new Passion", args |-> <<"app">>],
       [fn |-> "system.init", args |-> <<InitWidth, InitHeight, Title>>],
       [fn |-> "system.run",  args |-> <<"update", "draw">>],
       [fn |-> "math.rndi",   args |-> <<RndMin, RndMax>>],
       [fn |-> "math.rndi",   args |-> <<RndMin, RndMax>>] >>

\* the engine calls the handler makes when the canvas exists, in order
SetupCalls ==
    << [fn |-> "new Passion", args |-> <<"app">>],
       [fn |-> "system.init", args |-> <<InitWidth, InitHeight, Title>>],
       [fn |-> "math.rndi",   args |-> <<RndMin, RndMax>>],
       [fn |-> "math.rndi",   args |-> <<RndMin, RndMax>>],
       [fn |-> "system.run",  args |-> <<"update", "draw">>] >>

NoPrev == [x |-> 0, y |-> 0, dx |-> 0, dy |-> 0, dt |-> 0]

Init ==
    /\ pc = "loading"
    /\ hasApp \in BOOLEAN
    /\ calls = <<>>
    /\ width = 0
    /\ height = 0
    /\ x = 0
    /\ y = 0
    /\ dx = 0
    /\ dy = 0
    /\ ticked = FALSE
    /\ prev = NoPrev
    /\ draws = 0
    /\ gfx = <<>>

\* a variant that draws one random number and uses it for both axes
Setup_OneDraw ==
    \E v \in rndi(RndMin, RndMax) :
        /\ calls' = << SetupCalls[1], SetupCalls[2], SetupCalls[3], SetupCalls[5] >>
        /\ width' = InitWidth
        /\ height' = InitHeight
        /\ x' = InitWidth \div 2
        /\ y' = InitHeight \div 2
        /\ dx' = v
        /\ dy' = v
        /\ pc' = "running"

\* the body of `if (app) { ... }`, up to and including system.run
Setup ==
    \E vx \in rndi(RndMin, RndMax), vy \in rndi(RndMin, RndMax) :
        /\ calls' = SetupCalls
        /\ width' = InitWidth
        /\ height' = InitHeight
        /\ x' = InitWidth \div 2
        /\ y' = InitHeight \div 2
        /\ dx' = vx
        /\ dy' = vy
        /\ pc' = "running"

\* a variant without the `if (app)` test
DOMContentLoaded_NoCheck ==
    /\ pc = "loading"
    /\ Setup
    /\ UNCHANGED <<hasApp, ticked, prev, draws, gfx>>

\* the DOMContentLoaded handler
DOMContentLoaded ==
    /\ pc = "loading"
    /\ IF hasApp
          THEN Setup
          ELSE /\ pc' = "idle"
               /\ UNCHANGED <<calls, width, height, x, y, dx, dy>>
    /\ UNCHANGED <<hasApp, ticked, prev, draws, gfx>>

InWorld(p, extent) == 0 - MaxOut <= p /\ p <= extent + MaxOut

\* the update callback, invoked by the engine with the elapsed time n
Update(n) ==
    /\ pc = "running"
    /\ LET nx == Advance(x, dx, n)
           ny == Advance(y, dy, n)
       IN  /\ InWorld(nx, width)
           /\ InWorld(ny, height)
           /\ x' = nx
           /\ y' = ny
           /\ dx' = Bounce(nx, dx, width)
           /\ dy' = Bounce(ny, dy, height)
    /\ ticked' = TRUE
    /\ prev' = [x |-> x, y |-> y, dx |-> dx, dy |-> dy, dt |-> n]
    /\ draws' = 0
    /\ gfx' = <<>>
    /\ UNCHANGED <<pc, hasApp, calls, width, height>>

\* the draw callback
Draw ==
    /\ pc = "running"
    /\ draws < MaxDraws
    /\ draws' = draws + 1
    /\ gfx' = gfx \o DrawCalls(x, y)
    /\ UNCHANGED <<pc, hasApp, calls, width, height, x, y, dx, dy, ticked, prev>>

Tick == \E n \in Dts : Update(n)

Next == DOMContentLoaded \/ Tick \/ Draw

Spec == Init /\ [][Next]_vars

\* update invoked with a positive elapsed time
PositiveTick == \E n \in Dts \ {0} : Update(n)

\* The browser fires DOMContentLoaded, and the engine's frame loop keeps
\* invoking update with a positive elapsed time.
FairSpec == Init /\ [][Next]_vars /\ WF_vars(DOMContentLoaded) /\ WF_vars(PositiveTick)

(***************************************************************************)
(* Properties.                                                             *)
(***************************************************************************)
Running == pc = "running"

FnNames(log) == [i \in DOMAIN log |-> log[i].fn]

CountFn(log, f) == Cardinality({i \in DOMAIN log : log[i].fn = f})

\* the ball's extent on one axis lies within [0, extent]
ExtentInside(p, extent) == 0 <= p - radius /\ p + radius <= extent

\* C1: one call of update leaves each coordinate equal to its old value plus
\* speed * (old velocity component) * dt, whatever the boundary check does to
\* the velocity; from (180,120) with velocity (3,-2) and dt = 0.1 s the new
\* position is (186,116).
C1_PositionAdvance ==
    /\ ticked =>
          /\ x * TicksPerSecond = prev.x * TicksPerSecond + 20 * prev.dx * prev.dt
          /\ y * TicksPerSecond = prev.y * TicksPerSecond + 20 * prev.dy * prev.dt
    /\ Advance(180, 3, TicksPerSecond \div 10) = 186
    /\ Advance(120, 0 - 2, TicksPerSecond \div 10) = 116

\* an update with positive elapsed time moved the ball on both axes and the
\* boundary check turned its x velocity round
C1_Witness ==
    /\ ticked
    /\ prev.dt > 0
    /\ prev.dx > 0
    /\ prev.dy < 0
    /\ x > prev.x
    /\ y < prev.y
    /\ dx = 0 - prev.dx

\* C2: after update, each axis's velocity component is the negation of its
\* value before the call when the advanced position has position - 16 <= 0 or
\* position + 16 >= extent (360 for x, 240 for y), and is unchanged otherwise;
\* each axis is decided by its own coordinate alone.
C2_BounceRule ==
    ticked =>
        /\ dx = IF x - 16 <= 0 \/ x + 16 >= 360 THEN 0 - prev.dx ELSE prev.dx
        /\ dy = IF y - 16 <= 0 \/ y + 16 >= 240 THEN 0 - prev.dy ELSE prev.dy

\* an update ended exactly on the right edge (x + radius = width), away from
\* the top and bottom edges: dx was negated and dy kept
C2_Witness ==
    /\ ticked
    /\ x + radius = width
    /\ ~HitsEdge(y, height)
    /\ prev.dx > 0
    /\ prev.dy # 0
    /\ dx = 0 - prev.dx
    /\ dy = prev.dy

\* C3: after every tick the ball's extent is inside the viewport:
\* 0 <= x - radius, x + radius <= 360, 0 <= y - radius, y + radius <= 240.
C3_ExtentStaysInside ==
    Running => ExtentInside(x, 360) /\ ExtentInside(y, 240)

\* C4: every draw issues cls(2), circ(x, y, 16, 1) with the current position
\* and text(100, 50, <fixed string>, 15), in that order, so two draws with no
\* update in between issue identical calls; a draw changes none of x, y, dx, dy.
C4_DrawIdempotent ==
    /\ [](/\ Len(gfx) = 3 * draws
          /\ \A k \in 1..draws :
                /\ gfx[3 * k - 2] = [fn |-> "cls", args |-> <<2>>]
                /\ gfx[3 * k - 1] = [fn |-> "circ", args |-> <<x, y, 16, 1>>]
                /\ gfx[3 * k] = [fn |-> "text", args |-> <<100, 50, Welcome, 15>>])
    /\ [][draws' > draws => ball' = ball]_vars

\* two draws followed an update that left the ball off the diagonal
C4_Witness ==
    /\ ticked
    /\ draws = 2
    /\ x # y
    /\ SubSeq(gfx, 1, 3) = SubSeq(gfx, 4, 6)

\* C5: without an element 'app' the handler does nothing: no engine call is
\* made (no construction, init, rndi or run), no callback is ever invoked and
\* nothing is drawn.
C5_NoAppNoSetup ==
    ~hasApp =>
        /\ pc \in {"loading", "idle"}
        /\ calls = <<>>
        /\ ~ticked
        /\ draws = 0
        /\ gfx = <<>>
        /\ ball = <<0, 0, 0, 0>>

\* the handler has run and found no canvas
C5_Witness == pc = "idle" /\ ~hasApp

\* C6: the ball is created once, at the viewport centre (180, 120), with
\* math.rndi(-5, 5) called exactly twice, so that dx and dy are integers of
\* [-5, 5]; no later step calls rndi again.
C6_BallCreatedOnce ==
    Running =>
        /\ CountFn(calls, "math.rndi") = 2
        /\ \A i \in DOMAIN calls :
              calls[i].fn = "math.rndi" => calls[i].args = <<0 - 5, 5>>
        /\ dx \in (0 - 5)..5
        /\ dy \in (0 - 5)..5
        /\ ~ticked => x = 180 /\ y = 120

\* the ball after updates and a draw, with the two extreme velocities
C6_Witness ==
    Running /\ ticked /\ draws > 0 /\ dx = 0 - 5 /\ dy = 5 /\ x # 180

\* C7: nothing is constructed before DOMContentLoaded; with the canvas
\* present the handler constructs the engine, calls system.init(360, 240,
\* title), draws the two random numbers and calls system.run, in that order
\* and once each; update and draw are not invoked before system.run.
C7_StartupOrder ==
    /\ pc = "loading" => calls = <<>>
    /\ Running =>
          /\ FnNames(calls) =
                <<"new Passion", "system.init", "math.rndi", "math.rndi", "system.run">>
          /\ calls[2].args = <<360, 240, Title>>
    /\ (ticked \/ draws > 0) =>
          /\ Running
          /\ CountFn(calls, "system.run") = 1
          /\ calls[Len(calls)].fn = "system.run"

\* the frame loop runs: update and draw have both been invoked
C7_Witness == Running /\ ticked /\ draws > 0 /\ hasApp

\* the last update ended with the ball on or past an edge, where a velocity
\* component is negated
AtEdge == ticked /\ (HitsEdge(x, width) \/ HitsEdge(y, height))

\* C8: while update keeps being called with positive elapsed time, the ball
\* reaches an edge of the viewport again and again, for every initial
\* velocity rndi(-5, 5) can return.
C8_KeepsBouncing == [](Running => <>AtEdge)

\* the same, for a ball that moves on at least one axis
MovingBallKeepsBouncing == [](Running /\ (dx # 0 \/ dy # 0) => <>AtEdge)

\* C9: when a tick ends with the ball's extent on or past a boundary on some
\* axis, the next tick ends with the extent on that axis inside the viewport.
C9_OutForOneFrame ==
    ticked =>
        /\ HitsEdge(prev.x, width) => ExtentInside(x, width)
        /\ HitsEdge(prev.y, height) => ExtentInside(y, height)

\* C10: update only ever changes the sign of a velocity component, so |dx|
\* and |dy| stay what the two draws at startup made them.
C10_SpeedMagnitudeKept ==
    [][Running => Abs(dx') = Abs(dx) /\ Abs(dy') = Abs(dy)]_vars

\* an update negated one non-zero component and kept the other
C10_Witness ==
    /\ ticked
    /\ prev.dx # 0
    /\ prev.dy # 0
    /\ dx = 0 - prev.dx
    /\ dy = prev.dy
    /\ draws > 0
====
